---- MODULE Spec2Model ----
(***************************************************************************)
(* Revert analysis: reverts.py (get_revision_stats, get_reverts) and       *)
(* xml_reverts.py (run / process_dump) driving the revert detector of      *)
(* mw.lib.reverts over page-grouped, timestamp-ordered revision rows.      *)
(*                                                                         *)
(* One behaviour is one call of one entry point.  The rows of the cursor   *)
(* (or the revisions of the dump) are pulled one per loop iteration.       *)
(***************************************************************************)
EXTENDS Integers, Sequences, FiniteSets

\* ------------------------------------------------------------- bounds
MaxRevs == 4        \* rows a query or a dump delivers in one call
MaxTs == 1          \* timestamps are 0..MaxTs
MaxPages == 2       \* pages the source holds
MaxRadius == 2      \* revert_radius is 1..MaxRadius
MaxWindow == 1      \* revert_window is 0..MaxWindow

\* ---------------------------------------------------------- constants
\* Python's None (a missing start / end / revert_window)
None == 0 - 1

\* mw.lib.reverts.defaults.RADIUS: the radius detect() uses when its caller
\* passes none
RADIUS == 15

Calls == {"get_revision_stats", "get_reverts", "run"}

\* where the rows come from: the cursor's hard-coded test values, the query
\* they stand in for, or the pages of a dump
Sources == {"fixture", "query", "dump"}

VARIABLES
    call,             \* the entry point this behaviour runs
    source,           \* where the rows come from
    wellformed,       \* the source keeps its contract: fingerprints present,
                      \* each page's rows in timestamp order
    start, end,       \* arguments (None when missing)
    revert_radius,
    revert_window,
    previous,         \* what the call made before this one, over the same
                      \* source, was and gave: <<>> or one record
    pc,               \* "entry", "loop", "returned", "raised", "closed"
    error,            \* "none" or the exception raised
    cursor,           \* rows pulled from the source so far
    detector,         \* the live Detector: [radius, revert_window, window]
    results,          \* results[n]: what detector.process returned for cursor[n]
    revert_stats,     \* page -> <<total_revisions, total_reverts>>
    total_revisions,
    total_reverts,
    yielded           \* reverts yielded so far (get_reverts, process_dump)

vars == <<call, source, wellformed, previous, start, end, revert_radius, revert_window, pc, error, cursor,
          detector, results, revert_stats, total_revisions, total_reverts,
          yielded>>

\* ------------------------------------------------------------ helpers
Last(s) == s[Len(s)]

\* the last n elements of s
LastN(s, n) == IF Len(s) <= n THEN s ELSE SubSeq(s, Len(s) - n + 1, Len(s))

\* `not x` for a Timestamp argument: only a missing one is falsy
Missing(x) == x = None

\* ----------------------------------------------------- the detector
\* (mw.lib.reverts is not part of the sources; modelled from the
\* specification's SlidingWindowDetector, section 4.1)

\* Detector(radius): a fresh detector; revert_window is None when the
\* caller configures no age bound
NewDetector(radius, window_secs) ==
    [radius |-> radius, revert_window |-> window_secs, window |-> <<>>]

\* step 1: age-based eviction first, then count-based
Evict(d, ts) ==
    LET aged == IF d.revert_window = None
                THEN d.window
                ELSE SelectSeq(d.window,
                       LAMBDA e : ts - e.revision.rev_timestamp <= d.revert_window)
    IN LastN(aged, d.radius)

\* step 2: position of the nearest (most recent) entry with this checksum,
\* 0 when there is none
NearestMatch(w, checksum) ==
    LET hits == {i \in 1..Len(w) : w[i].checksum = checksum}
    IN IF hits = {} THEN 0 ELSE CHOOSE i \in hits : \A j \in hits : j <= i

\* the revisions of window entries from..to, ascending
Revisions(w, from, to) == [i \in 1..(to - from + 1) |-> w[from + i - 1].revision]

\* failure semantics: a revision without its fingerprint or its timestamp
Invalid(checksum, revision) ==
    checksum = None \/ revision.rev_timestamp = None

\* steps 1-5: process(checksum, revision) -> <<revert or nothing, detector'>>
\* the revert is a sequence of length 0 (none) or 1; raised says that the
\* call failed fast on an invalid revision
Process(d, checksum, revision) ==
    IF Invalid(checksum, revision)
    THEN [revert |-> <<>>, detector |-> d, raised |-> TRUE]
    ELSE
    LET w == Evict(d, revision.rev_timestamp)
        m == NearestMatch(w, checksum)
        reverteds == IF m = 0 THEN <<>> ELSE Revisions(w, m + 1, Len(w))
        revert == IF m = 0 \/ reverteds = <<>>
                  THEN <<>>
                  ELSE <<[reverting |-> revision,
                          reverteds |-> reverteds,
                          reverted_to |-> w[m].revision]>>
        inserted == Append(w, [checksum |-> checksum, revision |-> revision])
    IN [revert |-> revert, detector |-> [d EXCEPT !.window = inserted],
        raised |-> FALSE]

\* ------------------------------------------------------- the source
\* WHERE r1.rev_timestamp >= %s AND r1.rev_timestamp <= %s, with the values
\* [edit_window_start, end]
edit_window_start == start - revert_window

InQuery(ts) == ts >= edit_window_start /\ ts <= end

\* the test values of the cursor: ids, pages and fingerprints numbered in
\* order of appearance (46229350 is page 1, 47898909 page 2), timestamps in
\* hours since 20150325230000
Fixture ==
    <<[rev_id |-> 1, rev_page |-> 1, rev_sha1 |-> 1, rev_timestamp |-> 0],
      [rev_id |-> 2, rev_page |-> 1, rev_sha1 |-> 2, rev_timestamp |-> 1],
      [rev_id |-> 3, rev_page |-> 1, rev_sha1 |-> 3, rev_timestamp |-> 2],
      [rev_id |-> 4, rev_page |-> 1, rev_sha1 |-> 2, rev_timestamp |-> 3],
      [rev_id |-> 5, rev_page |-> 2, rev_sha1 |-> 4, rev_timestamp |-> 4]>>

FixtureTimes == {Fixture[i].rev_timestamp : i \in 1..Len(Fixture)}

UsedShas == {cursor[i].rev_sha1 : i \in 1..Len(cursor)} \ {None}

\* the rows a query or a dump may deliver next: ORDER BY rev_page,
\* rev_timestamp ASC.  Pages and fingerprints are opaque, so each new one
\* takes the next number.  A source that breaks its contract may deliver a
\* row without fingerprint (rev_sha1 NULL) and, from a dump, a revision older
\* than the one before it.
OrderedRows ==
    LET n == Len(cursor)
        pages == IF n = 0 THEN {1}
                 ELSE {Last(cursor).rev_page, Last(cursor).rev_page + 1}
                          \cap 1..MaxPages
        shas == 1..(Cardinality(UsedShas) + 1)
                   \cup (IF wellformed THEN {} ELSE {None})
    IN {r \in [rev_id : {n + 1}, rev_page : pages, rev_sha1 : shas,
               rev_timestamp : 0..MaxTs] :
          /\ (n > 0 /\ r.rev_page = Last(cursor).rev_page
                    /\ (wellformed \/ source = "query"))
                => r.rev_timestamp >= Last(cursor).rev_timestamp
          /\ source = "query" => InQuery(r.rev_timestamp)}

\* the rows the source holds, as far as a call has shown them: those the
\* earlier call read, or the test values
Known ==
    IF previous # <<>> THEN previous[1].cursor
    ELSE IF source = "fixture" THEN Fixture
    ELSE <<>>

\* the rows that may come next
NextRows ==
    IF previous # <<>> \/ source = "fixture"
    THEN IF Len(cursor) < Len(Known) THEN {Known[Len(cursor) + 1]} ELSE {}
    ELSE IF Len(cursor) < MaxRevs THEN OrderedRows ELSE {}

\* the loop over the rows may end: a list, or a source read before, is read
\* to its end; a query or a dump may hold no more
Exhausted ==
    (previous # <<>> \/ source = "fixture") => Len(cursor) = Len(Known)

\* a groupby whose key does not tell the pages apart
GroupKeyConstant(r) == 0

\* groupby(cursor, key=lambda r: r['rev_page'])
GroupKey(r) == r.rev_page

\* r opens a new group of the groupby
NewGroup(r) == cursor = <<>> \/ GroupKey(r) # GroupKey(Last(cursor))

\* the row's id handed over as its checksum
ChecksumById(r) == r.rev_id

\* the row's timestamp handed over as its checksum
ChecksumByTimestamp(r) == r.rev_timestamp

\* the checksum handed to the detector: r['rev_sha1'] / r.sha1
Checksum(r) == r.rev_sha1

\* a range that leaves its first instant out
InRangeAfterStart(ts) == ts > start /\ ts <= end

\* Timestamp(ts) >= start and Timestamp(ts) <= end
InRange(ts) == ts >= start /\ ts <= end

\* ---------------------------------------------------------------- Init
Arguments ==
    /\ call \in Calls
    /\ revert_radius \in 1..MaxRadius
    /\ IF call = "run"
       THEN /\ source = "dump"
            /\ start = None /\ end = None /\ revert_window = None
       ELSE /\ source \in {"fixture", "query"}
            /\ start \in {None} \cup (IF source = "fixture" THEN FixtureTimes ELSE 0..MaxTs)
            /\ end \in {None} \cup (IF source = "fixture" THEN FixtureTimes ELSE 0..MaxTs)
            /\ revert_window \in 0..MaxWindow

\* nothing read, counted or yielded yet
Locals ==
    /\ pc = "entry"
    /\ error = "none"
    /\ cursor = <<>>
    /\ detector = NewDetector(RADIUS, None)      \* no detector made yet
    /\ results = <<>>
    /\ revert_stats = <<>>
    /\ total_revisions = 0
    /\ total_reverts = 0
    /\ yielded = <<>>

Init == Arguments /\ wellformed = TRUE /\ previous = <<>> /\ Locals

\* the same calls over a source that may break its contract
InitMalformed == Arguments /\ wellformed = FALSE /\ previous = <<>> /\ Locals

\* ------------------------------------------------- get_revision_stats
\* a detector that keeps one revision too many
StatsRadiusOffByOne == revert_radius + 1

\* the radius get_revision_stats gives its detector: reverts.Detector(revert_radius)
StatsRadius == revert_radius

\* a detector made once and kept between calls: a call sets its radius and
\* finds the revisions the call before left in it
StatsEnterKeptDetector ==
    /\ call = "get_revision_stats" /\ pc = "entry"
    /\ IF Missing(start) \/ Missing(end)
       THEN /\ pc' = "raised" /\ error' = "ValueError"
            /\ UNCHANGED detector
       ELSE /\ pc' = "loop"
            /\ detector' = [detector EXCEPT !.radius = StatsRadius]
            /\ UNCHANGED error
    /\ UNCHANGED <<call, source, wellformed, previous, start, end, revert_radius, revert_window, cursor,
                   results, revert_stats, total_revisions, total_reverts, yielded>>

\* lines 99-139: validation, then one detector for the whole call
StatsEnter ==
    /\ call = "get_revision_stats" /\ pc = "entry"
    /\ IF Missing(start) \/ Missing(end)
       THEN /\ pc' = "raised" /\ error' = "ValueError"
            /\ UNCHANGED detector
       ELSE /\ pc' = "loop"
            /\ detector' = NewDetector(StatsRadius, None)
            /\ UNCHANGED error
    /\ UNCHANGED <<call, source, wellformed, previous, start, end, revert_radius, revert_window, cursor,
                   results, revert_stats, total_revisions, total_reverts, yielded>>

\* revert_stats[page_id] = (total_revisions, total_reverts), at the end of a group
Commit(stats) ==
    IF cursor = <<>> THEN stats
    ELSE LET p == GroupKey(Last(cursor))
         IN [q \in (DOMAIN stats) \cup {p} |->
                IF q = p THEN <<total_revisions, total_reverts>> ELSE stats[q]]

\* every revert counted, wherever its reverting revision lies
IsRevertAnywhere(revert) == revert # <<>>

\* a revert counted without the test against start
IsRevertBeforeEnd(revert) ==
    revert # <<>> /\ revert[1].reverting.rev_timestamp <= end

\* is_revert = revert and reverting's timestamp in [start, end]
IsRevert(revert) ==
    revert # <<>> /\ InRange(revert[1].reverting.rev_timestamp)

\* lines 142-159: one iteration of `for r in revisions`; a row of a new page
\* first closes the previous group and zeroes the two counters
StatsRow(r) ==
    /\ call = "get_revision_stats" /\ pc = "loop"
    /\ r \in NextRows
    /\ LET p == Process(detector, Checksum(r), r)
           base_revisions == IF NewGroup(r) THEN 0 ELSE total_revisions
           base_reverts == IF NewGroup(r) THEN 0 ELSE total_reverts
       IN /\ detector' = p.detector
          /\ results' = Append(results, p.revert)
          /\ revert_stats' = IF NewGroup(r) THEN Commit(revert_stats) ELSE revert_stats
          /\ IF p.raised
             THEN \* process raised at line 150: nothing is counted for r, and
                  \* nothing catches the exception
                  /\ total_revisions' = base_revisions
                  /\ total_reverts' = base_reverts
                  /\ pc' = "raised" /\ error' = "InvalidRevisionError"
             ELSE /\ total_revisions' =
                        base_revisions + (IF InRange(r.rev_timestamp) THEN 1 ELSE 0)
                  /\ total_reverts' =
                        base_reverts + (IF IsRevert(p.revert) THEN 1 ELSE 0)
                  /\ UNCHANGED <<pc, error>>
    /\ cursor' = Append(cursor, r)
    /\ UNCHANGED <<call, source, wellformed, previous, start, end, revert_radius, revert_window,
                   yielded>>

\* lines 159-161: the source is exhausted; the last group is closed
StatsReturn ==
    /\ call = "get_revision_stats" /\ pc = "loop"
    /\ Exhausted
    /\ revert_stats' = Commit(revert_stats)
    /\ pc' = "returned"
    /\ UNCHANGED <<call, source, wellformed, previous, start, end, revert_radius, revert_window, error, cursor,
                   detector, results, total_revisions, total_reverts, yielded>>

\* -------------------------------------------------------- get_reverts
\* the radius of the detector behind reverts.detect(...), called with the
\* revisions alone
DetectRadius == RADIUS

\* lines 184-188
RevertsEnter ==
    /\ call = "get_reverts" /\ pc = "entry"
    /\ IF Missing(start) \/ Missing(end)
       THEN pc' = "raised" /\ error' = "ValueError"
       ELSE pc' = "loop" /\ UNCHANGED error
    /\ UNCHANGED <<call, source, wellformed, previous, start, end, revert_radius, revert_window, cursor, detector,
                   results, revert_stats, total_revisions, total_reverts, yielded>>

\* the detector a row meets: reverts.detect(...) makes one per group
DetectDetector(r) ==
    IF NewGroup(r) THEN NewDetector(DetectRadius, None) ELSE detector

\* the filter on what get_reverts yields, lines 229-231
YieldsRevert(revert) ==
    revert # <<>> /\ InRange(revert[1].reverting.rev_timestamp)

\* a revert handed over ahead of the ones already out
YieldFirst(ys, revert) == revert \o ys

\* yield revert: the consumer receives it after the ones already out
Yield(ys, revert) == ys \o revert

\* an exception of detect() leaves the generator: nothing in get_reverts or
\* process_dump catches it
Propagate(p) ==
    IF p.raised
    THEN pc' = "raised" /\ error' = "InvalidRevisionError"
    ELSE UNCHANGED <<pc, error>>

\* a generator that hands a revert over one pull late: the row after the
\* reverting one is read before the consumer receives the revert
RevertsRowLookahead(r) ==
    /\ call = "get_reverts" /\ pc = "loop"
    /\ r \in NextRows
    /\ LET p == Process(DetectDetector(r), Checksum(r), r)
       IN /\ detector' = p.detector
          /\ results' = Append(results, p.revert)
          /\ yielded' = IF results # <<>> /\ YieldsRevert(Last(results))
                         THEN Yield(yielded, Last(results))
                         ELSE yielded
          /\ Propagate(p)
    /\ cursor' = Append(cursor, r)
    /\ UNCHANGED <<call, source, wellformed, previous, start, end, revert_radius, revert_window,
                   revert_stats, total_revisions, total_reverts>>

\* lines 226-231: one row pulled through detect() and the filter
RevertsRow(r) ==
    /\ call = "get_reverts" /\ pc = "loop"
    /\ r \in NextRows
    /\ LET p == Process(DetectDetector(r), Checksum(r), r)
       IN /\ detector' = p.detector
          /\ results' = Append(results, p.revert)
          /\ yielded' = IF YieldsRevert(p.revert) THEN Yield(yielded, p.revert)
                         ELSE yielded
          /\ Propagate(p)
    /\ cursor' = Append(cursor, r)
    /\ UNCHANGED <<call, source, wellformed, previous, start, end, revert_radius, revert_window,
                   revert_stats, total_revisions, total_reverts>>

\* the consumer stops pulling: the generator, suspended at the yield of
\* line 231 after handing over a revert, is closed and never resumed
RevertsClose ==
    /\ call = "get_reverts" /\ pc = "loop"
    /\ results # <<>> /\ YieldsRevert(Last(results))
    /\ pc' = "closed"
    /\ UNCHANGED <<call, source, wellformed, previous, start, end, revert_radius,
                   revert_window, error, cursor, detector, results, revert_stats,
                   total_revisions, total_reverts, yielded>>

RevertsReturn ==
    /\ call = "get_reverts" /\ pc = "loop"
    /\ Exhausted
    /\ pc' = "returned"
    /\ UNCHANGED <<call, source, wellformed, previous, start, end, revert_radius, revert_window, error, cursor,
                   detector, results, revert_stats, total_revisions, total_reverts,
                   yielded>>

\* ------------------------------------------------- xml_reverts.run
\* line 39: the header is printed, then the dumps are mapped
RunEnter ==
    /\ call = "run" /\ pc = "entry"
    /\ pc' = "loop"
    /\ UNCHANGED <<call, source, wellformed, previous, start, end, revert_radius, revert_window, error, cursor,
                   detector, results, revert_stats, total_revisions, total_reverts,
                   yielded>>

\* lines 31-35 and 44-49: one revision of a page through detect(); every
\* revert is yielded and printed
RunRow(r) ==
    /\ call = "run" /\ pc = "loop"
    /\ r \in NextRows
    /\ LET p == Process(DetectDetector(r), Checksum(r), r)
       IN /\ detector' = p.detector
          /\ results' = Append(results, p.revert)
          /\ yielded' = Yield(yielded, p.revert)
          /\ Propagate(p)
    /\ cursor' = Append(cursor, r)
    /\ UNCHANGED <<call, source, wellformed, previous, start, end, revert_radius, revert_window,
                   revert_stats, total_revisions, total_reverts>>

RunReturn ==
    /\ call = "run" /\ pc = "loop"
    /\ Exhausted
    /\ pc' = "returned"
    /\ UNCHANGED <<call, source, wellformed, previous, start, end, revert_radius, revert_window, error, cursor,
                   detector, results, revert_stats, total_revisions, total_reverts,
                   yielded>>

\* the row run prints for a revert (lines 46-49)
PrintedRow(revert) ==
    <<revert.reverting.rev_page, revert.reverting.rev_id,
      revert.reverting.rev_timestamp, Len(revert.reverteds),
      revert.reverted_to.rev_id, revert.reverted_to.rev_timestamp>>

\* ----------------------------------------------------------------- Next
Next ==
    \/ StatsEnter
    \/ \E r \in NextRows : StatsRow(r)
    \/ StatsReturn
    \/ RevertsEnter
    \/ \E r \in NextRows : RevertsRow(r)
    \/ RevertsClose
    \/ RevertsReturn
    \/ RunEnter
    \/ \E r \in NextRows : RunRow(r)
    \/ RunReturn

Spec == Init /\ [][Next]_vars

SpecMalformed == InitMalformed /\ [][Next]_vars

\* ------------------------------------------------ one call after another
\* main (lines 70-75) calls get_reverts and then get_revision_stats with the
\* same arguments; any entry point may also be called once more.  The new
\* call starts from its own locals and reads the same source again; the
\* detector of the earlier call is whatever that call left.
CallAgain(c) ==
    /\ pc = "returned" /\ previous = <<>>
    /\ c \in (IF call = "run" THEN {"run"} ELSE {"get_revision_stats", "get_reverts"})
    /\ previous' = <<[call |-> call, cursor |-> cursor, results |-> results,
                      yielded |-> yielded, revert_stats |-> revert_stats]>>
    /\ call' = c
    /\ pc' = "entry"
    /\ cursor' = <<>>
    /\ results' = <<>>
    /\ revert_stats' = <<>>
    /\ total_revisions' = 0
    /\ total_reverts' = 0
    /\ yielded' = <<>>
    /\ UNCHANGED <<source, wellformed, start, end, revert_radius, revert_window,
                   error, detector>>

NextAgain == Next \/ \E c \in Calls : CallAgain(c)

SpecAgain == Init /\ [][NextAgain]_vars

\* ================================================================ claims
\* the fingerprints of the rows pulled so far, in order
Shas == [i \in 1..Len(cursor) |-> cursor[i].rev_sha1]

Pages == {cursor[i].rev_page : i \in 1..Len(cursor)}

RowsOf(p) == {i \in 1..Len(cursor) : cursor[i].rev_page = p}

\* row n - k is a row of the same page with row n's fingerprint, and no row
\* between them has it
NearestAt(n, k) ==
    /\ n - k >= 1
    /\ cursor[n - k].rev_page = cursor[n].rev_page
    /\ cursor[n - k].rev_sha1 = cursor[n].rev_sha1
    /\ \A j \in 1..(k - 1) : cursor[n - j].rev_sha1 # cursor[n].rev_sha1

\* the same, counted in the rows one detector has been fed, whatever their page
NearestFedAt(n, k) ==
    /\ n - k >= 1
    /\ cursor[n - k].rev_sha1 = cursor[n].rev_sha1
    /\ \A j \in 1..(k - 1) : cursor[n - j].rev_sha1 # cursor[n].rev_sha1

WithinWindow(n, k) ==
    revert_window # None =>
        cursor[n].rev_timestamp - cursor[n - k].rev_timestamp <= revert_window

TheRevert(n, k) ==
    [reverting |-> cursor[n],
     reverteds |-> SubSeq(cursor, n - k + 1, n - 1),
     reverted_to |-> cursor[n - k]]

\* the reverts among rs, in order
RECURSIVE Flatten(_)
Flatten(rs) == IF rs = <<>> THEN <<>> ELSE Head(rs) \o Flatten(Tail(rs))

TsInside(ts) == start <= ts /\ ts <= end

C2_RadiusBoundaryFrom2 ==
    (call = "get_revision_stats" /\ revert_radius >= 2) =>
      \A n \in 1..Len(cursor) :
        /\ NearestFedAt(n, revert_radius) =>
              results[n] = <<TheRevert(n, revert_radius)>>
        /\ NearestFedAt(n, revert_radius + 1) => results[n] = <<>>

\* C2 as stated: the same for every radius R
C2_RadiusBoundary ==
    call = "get_revision_stats" =>
      \A n \in 1..Len(cursor) :
        /\ NearestFedAt(n, revert_radius) =>
              results[n] = <<TheRevert(n, revert_radius)>>
        /\ NearestFedAt(n, revert_radius + 1) => results[n] = <<>>

\* a match whose nearest row is R + 1 rows back, just evicted, not reported
C2_Witness ==
    /\ call = "get_revision_stats" /\ revert_radius >= 2
    /\ \E n \in 1..Len(cursor) :
          /\ NearestFedAt(n, revert_radius + 1)
          /\ cursor[n].rev_page = cursor[n - revert_radius - 1].rev_page
          /\ results[n] = <<>>

\* a match exactly R rows back, reported
C2_DetectedReached ==
    /\ call = "get_revision_stats" /\ revert_radius >= 2
    /\ \E n \in 1..Len(cursor) :
          NearestFedAt(n, revert_radius) /\ results[n] # <<>>

\* C3: no revert is given whose reverted_to is more than revert_window
\* seconds older than its reverting revision.
C3_AgeBoundary ==
    call \in {"get_revision_stats", "get_reverts"} =>
      \A n \in 1..Len(results) :
        results[n] # <<>> =>
          results[n][1].reverting.rev_timestamp
            - results[n][1].reverted_to.rev_timestamp <= revert_window

\* C4: a row is never matched against a row of another page: the
\* reverted_to and the reverteds of every revert are of the reverting row's page.
C4_PerDocumentIsolation ==
    \A n \in 1..Len(results) :
      results[n] # <<>> =>
        LET rv == results[n][1]
        IN /\ rv.reverted_to.rev_page = rv.reverting.rev_page
           /\ \A i \in 1..Len(rv.reverteds) :
                rv.reverteds[i].rev_page = rv.reverting.rev_page

\* C5: a row with the fingerprint of the row just before it gives no revert,
\* whatever older rows carry that fingerprint; every revert has at least one
\* reverted revision.
C5_NoOpIsNoRevert ==
    /\ \A n \in 2..Len(cursor) :
         cursor[n - 1].rev_sha1 = cursor[n].rev_sha1 => results[n] = <<>>
    /\ \A n \in 1..Len(results) :
         results[n] # <<>> => Len(results[n][1].reverteds) >= 1

\* fingerprints [F1, F2, F1, F1]: the fourth row repeats the third, and the
\* first, two rows further back, carries the fingerprint too
C5_Witness ==
    /\ call = "run" /\ Pages = {1}
    /\ Shas = <<1, 2, 1, 1>>
    /\ results[3] # <<>> /\ results[4] = <<>>

\* C6: in get_reverts and run, a page whose fingerprints are pairwise
\* distinct gives no revert at any of its rows, and none is yielded for it.
C6_DistinctFingerprintsNoRevert ==
    call \in {"get_reverts", "run"} =>
      \A p \in Pages :
        (\A i, j \in RowsOf(p) : i # j => cursor[i].rev_sha1 # cursor[j].rev_sha1)
          => /\ \A n \in RowsOf(p) : results[n] = <<>>
             /\ \A i \in 1..Len(yielded) : yielded[i].reverting.rev_page # p

\* a page of three distinct fingerprints after a page that holds one of them
C6_Witness ==
    /\ call = "get_reverts" /\ pc = "returned"
    /\ Shas = <<1, 1, 2, 3>>
    /\ RowsOf(2) = {2, 3, 4}
    /\ \A n \in RowsOf(2) : TsInside(cursor[n].rev_timestamp)
    /\ yielded = <<>>

\* C7: get_revision_stats reports for each page the number of its rows whose
\* timestamp t has start <= t <= end, the lookback rows left out; page A
\* [F1, F2, F3, F2] and page B [F4], all inside the range, give A -> (4, 1)
\* and B -> (1, 0).
C7_TotalRevisions ==
    (call = "get_revision_stats" /\ pc = "returned") =>
      /\ \A p \in DOMAIN revert_stats :
           revert_stats[p][1] =
             Cardinality({n \in RowsOf(p) : TsInside(cursor[n].rev_timestamp)})
      /\ (/\ Shas = <<1, 2, 3, 2, 4>>
          /\ RowsOf(1) = 1..4
          /\ revert_radius >= 2
          /\ \A n \in 1..5 : TsInside(cursor[n].rev_timestamp))
         => /\ DOMAIN revert_stats = {1, 2}
            /\ revert_stats[1] = <<4, 1>>
            /\ revert_stats[2] = <<1, 0>>

\* a page with rows before start and rows inside the range, reported
C7_Witness ==
    /\ call = "get_revision_stats" /\ pc = "returned"
    /\ \E p \in DOMAIN revert_stats :
         /\ \E n \in RowsOf(p) : cursor[n].rev_timestamp < start
         /\ \E n \in RowsOf(p) : TsInside(cursor[n].rev_timestamp)
         /\ revert_stats[p][1] >= 2
         /\ revert_stats[p][1] < Cardinality(RowsOf(p))

\* the scenario of C7 reached
C7_ScenarioReached ==
    /\ call = "get_revision_stats" /\ pc = "returned"
    /\ Shas = <<1, 2, 3, 2, 4>> /\ RowsOf(1) = 1..4
    /\ \A n \in 1..5 : TsInside(cursor[n].rev_timestamp)
    /\ revert_stats[1] = <<4, 1>> /\ revert_stats[2] = <<1, 0>>

\* the reverts the detector gave whose reverting row lies in [start, end]
InsideReverts ==
    SelectSeq(Flatten(results),
              LAMBDA rv : TsInside(rv.reverting.rev_timestamp))

\* C8: total_reverts of a page counts exactly the reverts whose reverting row
\* is of the page and lies in [start, end], wherever reverted_to lies, and
\* get_reverts yields exactly those reverts.
C8_RevertsCountedInRange ==
    /\ (call = "get_revision_stats" /\ pc = "returned") =>
         \A p \in DOMAIN revert_stats :
           revert_stats[p][2] =
             Cardinality({n \in RowsOf(p) :
                            /\ results[n] # <<>>
                            /\ TsInside(cursor[n].rev_timestamp)})
    /\ call = "get_reverts" => yielded = InsideReverts

\* a counted revert that reaches back before start, after an uncounted one
\* whose reverting row lies before start
C8_Witness ==
    /\ call = "get_revision_stats" /\ pc = "returned"
    /\ \E n \in 1..Len(results) :
         /\ results[n] # <<>>
         /\ TsInside(cursor[n].rev_timestamp)
         /\ results[n][1].reverted_to.rev_timestamp < start
         /\ revert_stats[cursor[n].rev_page][2] = 1
         /\ \E m \in RowsOf(cursor[n].rev_page) :
              results[m] # <<>> /\ cursor[m].rev_timestamp < start

\* C9: with start missing, end missing or start > end, get_revision_stats
\* and get_reverts raise, with no stats entry, no revert and no row fed.
C9_RangeValidation ==
    (/\ call \in {"get_revision_stats", "get_reverts"}
     /\ pc # "entry"
     /\ (Missing(start) \/ Missing(end) \/ start > end))
    => /\ pc = "raised" /\ error = "ValueError"
       /\ cursor = <<>> /\ results = <<>>
       /\ revert_stats = <<>> /\ yielded = <<>>

\* C10: every revert get_reverts or run yields has at most revert_radius
\* reverted revisions.
C10_CallerRadiusApplied ==
    call \in {"get_reverts", "run"} =>
      \A i \in 1..Len(yielded) : Len(yielded[i].reverteds) <= revert_radius

\* row n breaks the source's contract: no fingerprint, or older than the row
\* of its page before it
Malformed(n) ==
    \/ cursor[n].rev_sha1 = None
    \/ /\ n > 1
       /\ cursor[n - 1].rev_page = cursor[n].rev_page
       /\ cursor[n].rev_timestamp < cursor[n - 1].rev_timestamp

\* C11: a page with a malformed row ends in InvalidRevisionError: no revert
\* is given at or after the malformed row of that page, and the error ends
\* that page only, never the call, so the other pages are processed as without it.
C11_MalformedRejectedAndIsolated ==
    \A n \in 1..Len(cursor) :
      Malformed(n) =>
        /\ error = "InvalidRevisionError"
        /\ \A m \in n..Len(cursor) :
             cursor[m].rev_page = cursor[n].rev_page => results[m] = <<>>
        /\ pc # "raised"

\* C13: a row gives at most one revert, and get_reverts and run hand the
\* reverts over in the order of their reverting rows: no row is the reverting
\* row of two of them, none of a later row comes before one of an earlier row.
C13_OneRecordPerRevisionInOrder ==
    /\ \A n \in 1..Len(results) : Len(results[n]) <= 1
    /\ call \in {"get_reverts", "run"} =>
         \A i, j \in 1..Len(yielded) :
           i < j => yielded[i].reverting.rev_id < yielded[j].reverting.rev_id

\* two reverts of one page handed over, the earlier row's first
C13_Witness ==
    /\ call = "get_reverts"
    /\ Shas = <<1, 2, 1, 2>>
    /\ Len(yielded) = 2
    /\ yielded[1].reverting = cursor[3] /\ yielded[2].reverting = cursor[4]

\* the window the last row was matched against: the detector's window
\* without the row inserted after the match
MatchedWindow == SubSeq(detector.window, 1, Len(detector.window) - 1)

\* C14: when a row is matched in get_revision_stats or get_reverts, the
\* window holds at most radius revisions, in ascending timestamp order.
C14_WindowInvariant ==
    (call \in {"get_revision_stats", "get_reverts"} /\ cursor # <<>>) =>
      LET w == MatchedWindow
      IN /\ Len(w) <= revert_radius
         /\ \A i, j \in 1..Len(w) :
              i < j => w[i].revision.rev_timestamp <= w[j].revision.rev_timestamp

\* the rows of reverting's page pulled strictly between reverted_to and
\* reverting
Between(rv) ==
    SelectSeq(cursor,
              LAMBDA r : /\ r.rev_page = rv.reverting.rev_page
                         /\ r.rev_id > rv.reverted_to.rev_id
                         /\ r.rev_id < rv.reverting.rev_id)

\* the source keeps the contract of a revision source: within a page the
\* timestamps are strictly ascending
StrictlyAscending ==
    \A n \in 2..Len(cursor) :
      cursor[n - 1].rev_page = cursor[n].rev_page
        => cursor[n - 1].rev_timestamp < cursor[n].rev_timestamp

\* C15: over a source of strictly ascending timestamps, every revert has
\* reverted_to.timestamp < reverting.timestamp, reverted_to.id # reverting.id,
\* and reverteds exactly the revisions of that document observed strictly
\* between the two, ascending.
C15_RecordInvariants ==
    \A n \in 1..Len(results) :
      (StrictlyAscending /\ results[n] # <<>>) =>
        LET rv == results[n][1]
        IN /\ rv.reverted_to.rev_timestamp < rv.reverting.rev_timestamp
           /\ rv.reverted_to.rev_id # rv.reverting.rev_id
           /\ rv.reverted_to.rev_page = rv.reverting.rev_page
           /\ rv.reverteds = Between(rv)

\* C17: the mapping get_revision_stats returns has an entry only for pages
\* with a row in [start, end]: every entry has total_revisions >= 1.
C17_OnlyPagesEditedInRange ==
    (call = "get_revision_stats" /\ pc = "returned" /\ start <= end) =>
      \A p \in DOMAIN revert_stats :
        /\ revert_stats[p][1] >= 1
        /\ \E n \in RowsOf(p) : TsInside(cursor[n].rev_timestamp)

\* C19: in every entry of revert_stats, and in the counters of the page
\* being read, 0 <= total_reverts <= total_revisions.
C19_RevertsAtMostRevisions ==
    call = "get_revision_stats" =>
      /\ 0 <= total_reverts /\ total_reverts <= total_revisions
      /\ \A p \in DOMAIN revert_stats :
           0 <= revert_stats[p][2] /\ revert_stats[p][2] <= revert_stats[p][1]

\* a page whose only row in the range is a revert reaching back before
\* start: the two counts meet
C19_Witness ==
    /\ call = "get_revision_stats" /\ pc = "returned"
    /\ \E p \in DOMAIN revert_stats :
         /\ revert_stats[p] = <<1, 1>>
         /\ Cardinality(RowsOf(p)) >= 3

\* the records due once the first k rows have been pulled: every revert of
\* process_dump, those of get_reverts whose reverting row is in the range
Emitted(k) ==
    LET all == Flatten(SubSeq(results, 1, k))
    IN IF call = "run" THEN all
       ELSE SelectSeq(all, LAMBDA rv : InRange(rv.reverting.rev_timestamp))

IsPrefix(s, t) == Len(s) <= Len(t) /\ s = SubSeq(t, 1, Len(s))

\* C16: at every point of get_reverts and process_dump the consumer holds
\* exactly the records due for the rows pulled so far, so the record of row n
\* is out before row n+1 is pulled; what is out only grows at its end and
\* holds what was due after each shorter prefix of the rows; once the
\* consumer has stopped no further row is pulled.
C16_StreamingEarlyTermination ==
    /\ [](call \in {"get_reverts", "run"} =>
            /\ yielded = Emitted(Len(cursor))
            /\ \A k \in 0..Len(cursor) : IsPrefix(Emitted(k), yielded))
    /\ [][/\ IsPrefix(yielded, yielded')
          /\ pc = "closed" => (cursor' = cursor /\ yielded' = yielded)]_vars

\* the consumer stopped after a revert while the source held more rows
C16_Witness ==
    /\ pc = "closed" /\ yielded # <<>>
    /\ Len(cursor) < Len(Fixture) /\ source = "fixture"

\* the reverts an earlier get_reverts yielded for page p
YieldedFor(p) ==
    {i \in 1..Len(previous[1].yielded) :
       previous[1].yielded[i].reverting.rev_page = p}

\* C18: when get_revision_stats follows get_reverts over the same source
\* with the same arguments, the total_reverts it reports for each page is the
\* number of reverts get_reverts yielded for that page.
C18_EntryPointsAgree ==
    (/\ previous # <<>> /\ previous[1].call = "get_reverts"
     /\ call = "get_revision_stats" /\ pc = "returned") =>
      \A p \in DOMAIN revert_stats :
        revert_stats[p][2] = Cardinality(YieldedFor(p))

\* C12: a call made again over the same source with the same arguments
\* gives, row by row, the reverts the earlier call gave, hands the same
\* records over in the same order, and returns the same statistics, whatever
\* the earlier call left behind.
C12_Deterministic ==
    (previous # <<>> /\ previous[1].call = call) =>
      /\ IsPrefix(results, previous[1].results)
      /\ IsPrefix(yielded, previous[1].yielded)
      /\ pc = "returned" =>
           /\ results = previous[1].results
           /\ yielded = previous[1].yielded
           /\ revert_stats = previous[1].revert_stats

\* get_revision_stats run twice over rows holding a revert, the detector of
\* the first run left with revisions in it
C12_Witness ==
    /\ previous # <<>> /\ previous[1].call = "get_revision_stats"
    /\ call = "get_revision_stats" /\ pc = "returned"
    /\ \E p \in DOMAIN revert_stats : revert_stats[p][2] >= 1
    /\ \E n \in 1..Len(results) : results[n] # <<>>

====
